---------------------------- MODULE Spec2Model ----------------------------
(***************************************************************************)
(* Model of the three variants of the TDS Excel export utility:            *)
(*   variant 1  automap-data-import/src/automap_import.py  (threaded form) *)
(*   variant 2  "Import Files - With Notes 2.py"  (unnamed/part_000, top)  *)
(*   variant 3  "Import Files - With Notes.py"    (unnamed/part_000, end)  *)
(*                                                                         *)
(* Text is modelled as a sequence of one-character strings, so that        *)
(* lower(), substring tests, str.replace, strftime and date parsing are    *)
(* computed character by character.                                        *)
(***************************************************************************)
EXTENDS Integers, Sequences, FiniteSets, TLC

VARIABLES
    variant,    \* which of the three scripts is running
    raw,        \* cleaner: the table handed to clean_and_format_df
    once,       \* cleaner: clean_and_format_df(raw)
    twice,      \* cleaner: clean_and_format_df(once)
    stage,      \* cleaner: "raw" | "once" | "twice"
    url,        \* scraper: the url argument, "none" (absent) or "some"
    fetchOk,    \* scraper: whether requests.get returns a response
    page,       \* scraper: the table rows of the fetched page
    raiseAt,    \* scraper: the row whose processing raises (0: none)
    defs,       \* scraper: the map returned by get_field_definitions
    sstage,     \* scraper: "call" | "returned"
    p_raw,      \* merged sheet: the properties query result
    i_raw,      \* merged sheet: the insurance query result
    p_clean,    \* merged sheet: cleaned, prefixed properties with Account, _pid
    i_clean,    \* merged sheet: cleaned, prefixed insurance with _pref
    df4,        \* merged sheet: the merged table
    indexer,    \* merged sheet: pd.merge's row indexers, <<left row, right row>>
    mstage,     \* merged sheet: "read" | "props" | "ins" | "merged"
    run,        \* export: per invocation, its position, tables and outcome
    files,      \* export: per sheet, the workbook file in the output folder
    msgs,       \* export: the message boxes shown, in order
    status,     \* form: the status line (variant 1)
    logbox,     \* form: the log panel (variant 1)
    progress,   \* form: whether the progress indicator is running (variant 1)
    siteOk,     \* help site: whether requests.get succeeds
    siteBad     \* help site: the page row whose processing raises (0: none)

cleanVars  == <<raw, once, twice, stage>>
scrapeVars == <<url, fetchOk, page, raiseAt, defs, sstage>>
mergeVars  == <<p_raw, i_raw, p_clean, i_clean, df4, indexer, mstage>>

exportVars == <<run, files, msgs, status, logbox, progress, siteOk, siteBad>>

vars == <<variant, cleanVars, scrapeVars, mergeVars, exportVars>>

Variants == {1, 2, 3}

(***************************************************************************)
(* Bounds of the model.                                                    *)
(***************************************************************************)
MaxRows == 2
MaxCols == 2
MaxPageRows == 2
MaxProps == 2
MaxIns == 2
MaxPresses == 2

(***************************************************************************)
(* Text helpers.                                                           *)
(***************************************************************************)
\* str.lower() on one character
LowerChar(c) ==
    CASE c = "A" -> "a" [] c = "B" -> "b" [] c = "C" -> "c" [] c = "D" -> "d"
      [] c = "E" -> "e" [] c = "F" -> "f" [] c = "G" -> "g" [] c = "H" -> "h"
      [] c = "I" -> "i" [] c = "J" -> "j" [] c = "K" -> "k" [] c = "L" -> "l"
      [] c = "M" -> "m" [] c = "N" -> "n" [] c = "O" -> "o" [] c = "P" -> "p"
      [] c = "Q" -> "q" [] c = "R" -> "r" [] c = "S" -> "s" [] c = "T" -> "t"
      [] c = "U" -> "u" [] c = "V" -> "v" [] c = "W" -> "w" [] c = "X" -> "x"
      [] c = "Y" -> "y" [] c = "Z" -> "z" [] OTHER -> c

\* str.lower()
Lower(s) == [i \in 1..Len(s) |-> LowerChar(s[i])]

\* Python's  sub in s
Contains(sub, s) ==
    \E i \in 1..(Len(s) - Len(sub) + 1) : SubSeq(s, i, i + Len(sub) - 1) = sub

\* "%d" of a natural number
DigitChar(d) ==
    CASE d = 0 -> "0" [] d = 1 -> "1" [] d = 2 -> "2" [] d = 3 -> "3"
      [] d = 4 -> "4" [] d = 5 -> "5" [] d = 6 -> "6" [] d = 7 -> "7"
      [] d = 8 -> "8" [] OTHER -> "9"

RECURSIVE Digits(_)
Digits(n) == IF n < 10 THEN <<DigitChar(n)>>
             ELSE Digits(n \div 10) \o <<DigitChar(n % 10)>>

Pad2(n) == IF n < 10 THEN <<"0">> \o Digits(n) ELSE Digits(n)

IsDigit(c) == c \in {"0", "1", "2", "3", "4", "5", "6", "7", "8", "9"}

DigitVal(c) ==
    CASE c = "0" -> 0 [] c = "1" -> 1 [] c = "2" -> 2 [] c = "3" -> 3
      [] c = "4" -> 4 [] c = "5" -> 5 [] c = "6" -> 6 [] c = "7" -> 7
      [] c = "8" -> 8 [] OTHER -> 9

RECURSIVE ToNum(_)
ToNum(s) == IF Len(s) = 0 THEN 0
            ELSE 10 * ToNum(SubSeq(s, 1, Len(s) - 1)) + DigitVal(s[Len(s)])

AllDigits(s) == Len(s) > 0 /\ \A i \in 1..Len(s) : IsDigit(s[i])

\* str.split(sep) for a one-character separator
RECURSIVE Split(_, _)
Split(s, sep) ==
    IF \A i \in 1..Len(s) : s[i] # sep THEN <<s>>
    ELSE LET k == CHOOSE i \in 1..Len(s) :
                      s[i] = sep /\ \A j \in 1..(i - 1) : s[j] # sep
         IN  <<SubSeq(s, 1, k - 1)>> \o Split(SubSeq(s, k + 1, Len(s)), sep)

(***************************************************************************)
(* Cell values of a table: Python / pandas scalars.                        *)
(*   kind "int" / "float": num;   kind "str": txt;                         *)
(*   kind "none": None;  "nan": float NaN;  "ts": Timestamp ymd;           *)
(*   kind "nat": NaT.                                                      *)
(***************************************************************************)
IntV(n)   == [kind |-> "int",   txt |-> <<>>, num |-> n, ymd |-> <<>>]
FloatV(n) == [kind |-> "float", txt |-> <<>>, num |-> n, ymd |-> <<>>]
StrV(s)   == [kind |-> "str",   txt |-> s,    num |-> 0, ymd |-> <<>>]
NoneV     == [kind |-> "none",  txt |-> <<>>, num |-> 0, ymd |-> <<>>]
NaNV      == [kind |-> "nan",   txt |-> <<>>, num |-> 0, ymd |-> <<>>]
NaTV      == [kind |-> "nat",   txt |-> <<>>, num |-> 0, ymd |-> <<>>]
TsV(d)    == [kind |-> "ts",    txt |-> <<>>, num |-> 0, ymd |-> d]

IsNumber(v) == v.kind \in {"int", "float"}

\* Python equality as the hash table behind isin applies it: 0 == 0.0,
\* text equals text, None is None, NaN matches NaN only.
PyEq(a, b) ==
    IF IsNumber(a) /\ IsNumber(b) THEN a.num = b.num
    ELSE a = b

(***************************************************************************)
(* Column names and literals of the source.                                *)
(***************************************************************************)
OMISSIONS == {
    <<"S","y","s","C","r","e","a","t","e","d","D","a","t","e">>,
    <<"S","y","s","T","i","m","e","S","t","a","m","p">>,
    <<"S","y","s","R","e","c","S","t","a","t","u","s">>,
    <<"S","y","s","C","r","e","a","t","e","d","B","y">>,
    <<"B","o","r","r","o","w","e","r","F">>,
    <<"C","o","m","p","a","n","y","F">>,
    <<"S","o","r","t","N","a","m","e">>,
    <<"B","y","L","a","s","t","N","a","m","e">>,
    <<"F","u","n","d","C","o","n","t","r","o","l">>,
    <<"A","C","H","_","I","n","d","i","v","i","d","u","a","l","I","d">>,
    <<"X","M","L">>,
    <<"L","a","n","g","u","a","g","e","P","r","e","f","e","r","e","n","c","e">>,
    <<"I","n","s","u","r","a","n","c","e","D","o","c","u","m","e","n","t">> }

\* the list "invalid" / "invalid_vals" of each variant
Invalid(v) ==
    {IntV(0), StrV(<<"0">>), StrV(<<"0",".","0">>), StrV(<<>>), StrV(<<" ">>),
     NoneV, StrV(<<"N","U","L","L">>), StrV(<<"n","u","l","l">>)}
    \cup (IF v \in {2, 3} THEN {FloatV(0)} ELSE {})
    \cup (IF v = 3 THEN {StrV(<<"N","o","n","e">>)} ELSE {})

\* Series.isin(invalid) on one cell
IsIn(val, list) == \E x \in list : PyEq(val, x)

(***************************************************************************)
(* Dates: pd.to_datetime(..., errors="coerce") and .dt.strftime.           *)
(***************************************************************************)
IsLeap(y) == (y % 4 = 0 /\ y % 100 # 0) \/ y % 400 = 0

DaysInMonth(y, m) ==
    IF m = 2 THEN (IF IsLeap(y) THEN 29 ELSE 28)
    ELSE IF m \in {4, 6, 9, 11} THEN 30 ELSE 31

ValidDate(y, m, d) == m \in 1..12 /\ d \in 1..DaysInMonth(y, m)

\* Parsing of date text: year-month-day separated by "-", or month/day/year
\* separated by "/" (month first, pandas' default); anything else fails.
\* <<>> stands for NaT.
ParseDate(s) ==
    LET iso == Split(s, "-")
        us  == Split(s, "/")
    IN  IF Len(iso) = 3 /\ \A i \in 1..3 : AllDigits(iso[i])
        THEN LET y == ToNum(iso[1]) m == ToNum(iso[2]) d == ToNum(iso[3])
             IN  IF Len(iso[1]) = 4 /\ ValidDate(y, m, d) THEN <<y, m, d>> ELSE <<>>
        ELSE IF Len(us) = 3 /\ \A i \in 1..3 : AllDigits(us[i])
        THEN LET m == ToNum(us[1]) d == ToNum(us[2]) y == ToNum(us[3])
             IN  IF Len(us[3]) = 4 /\ ValidDate(y, m, d) THEN <<y, m, d>> ELSE <<>>
        ELSE <<>>

\* pd.to_datetime(value, errors="coerce"): a Timestamp (ymd) or NaT (<<>>).
\* A small integer is a count of nanoseconds since the epoch.
ToDatetime(val) ==
    CASE val.kind = "ts"  -> val.ymd
      [] val.kind = "str" -> ParseDate(val.txt)
      [] IsNumber(val)    -> <<1970, 1, 1>>
      [] OTHER            -> <<>>

\* strftime("%m/%d/%Y")
StrftimePadded(d) == Pad2(d[2]) \o <<"/">> \o Pad2(d[3]) \o <<"/">> \o Digits(d[1])

\* strftime("%#m/%#d/%Y")
StrftimePlain(d) == Digits(d[2]) \o <<"/">> \o Digits(d[3]) \o <<"/">> \o Digits(d[1])

\* Series.dt.strftime: NaT gives NaN (a missing value), not text
DtStrftime(d, padded) ==
    IF d = <<>> THEN NaNV
    ELSE StrV(IF padded THEN StrftimePadded(d) ELSE StrftimePlain(d))

\* Series.fillna("")
FillNa(val) == IF val.kind \in {"none", "nan", "nat"} THEN StrV(<<>>) ELSE val

\* Series.replace('NaT', ''): replaces cells equal to the text 'NaT'
ReplaceNaTText(val) == IF val = StrV(<<"N","a","T">>) THEN StrV(<<>>) ELSE val

\* the expression assigned to df[col] in each variant
FormatDateCell(v, val) ==
    IF v = 1 THEN FillNa(DtStrftime(ToDatetime(val), TRUE))
    ELSE ReplaceNaTText(DtStrftime(ToDatetime(val), FALSE))

(***************************************************************************)
(* Tables: a sequence of columns, each a name and a sequence of cells.     *)
(***************************************************************************)
Col(n, vs) == [name |-> n, vals |-> vs]

NRows(df) == IF Len(df) = 0 THEN 0 ELSE Len(df[1].vals)

ColNames(df) == [i \in 1..Len(df) |-> df[i].name]

\* a case-sensitive test, as if .lower() were left out
IsRecIdName_NoLower(n) == Contains(<<"r","e","c","i","d">>, n)

\* "recid" in c.lower()
IsRecIdName(n) == Contains(<<"r","e","c","i","d">>, Lower(n))

\* c in omissions
IsOmitted(n) == n \in OMISSIONS

\* (df.isin(invalid)).all(axis=0) for one column
AllInvalid(v, c) == \A i \in 1..Len(c.vals) : IsIn(c.vals[i], Invalid(v))

\* pd.api.types.is_datetime64_any_dtype(df[col])
IsDatetimeDtype(c) ==
    /\ \A i \in 1..Len(c.vals) : c.vals[i].kind \in {"ts", "nat"}
    /\ \E i \in 1..Len(c.vals) : c.vals[i].kind = "ts"

\* the test guarding the date formatting of a column
IsDateCol(v, c) ==
    \/ Contains(<<"d","a","t","e">>, Lower(c.name))
    \/ (v = 3 /\ IsDatetimeDtype(c))

FormatCol(v, c) ==
    IF IsDateCol(v, c)
    THEN Col(c.name, [i \in 1..Len(c.vals) |-> FormatDateCell(v, c.vals[i])])
    ELSE c

\* a frame method that changes the frame it is called on
NewFrame_InPlace(heap, r, table) ==
    [heap |-> [heap EXCEPT ![r] = table], ref |-> r]

\* df.drop(columns=...) and df.loc[:, mask] build a new frame object and
\* leave the frame they are called on alone.  heap[id] is the table held by
\* the frame object id.
NewFrame(heap, r, table) ==
    [heap |-> Append(heap, table), ref |-> Len(heap) + 1]

\* the call clean_and_format_df(df, omissions) of variant v on the frame
\* object r: the local name df is rebound by the two drops and by .loc, and
\* the date loop assigns into the frame df is then bound to
CleanCall(v, heap, r) ==
    LET NotRecId(c)   == ~IsRecIdName(c.name)
        NotOmitted(c) == ~IsOmitted(c.name)
        NotEmpty(c)   == ~AllInvalid(v, c)
        f1 == NewFrame(heap, r, SelectSeq(heap[r], NotRecId))
        f2 == NewFrame(f1.heap, f1.ref, SelectSeq(f1.heap[f1.ref], NotOmitted))
        f3 == NewFrame(f2.heap, f2.ref, SelectSeq(f2.heap[f2.ref], NotEmpty))
        d3 == f3.heap[f3.ref]
    IN  [heap |-> [f3.heap EXCEPT
                      ![f3.ref] = [i \in 1..Len(d3) |-> FormatCol(v, d3[i])]],
         ref  |-> f3.ref]

\* clean_and_format_df(df, omissions) of variant v: the table returned
clean_and_format_df(v, df) ==
    LET c == CleanCall(v, <<df>>, 1)
    IN  c.heap[c.ref]

\* the table the caller's frame holds after clean_and_format_df(df, ...)
InputAfterClean(v, df) == CleanCall(v, <<df>>, 1).heap[1]

(***************************************************************************)
(* Inputs of the cleaner.                                                  *)
(***************************************************************************)
RecID   == <<"R","e","c","I","D">>
XML     == <<"X","M","L">>
DueDate == <<"D","u","e","D","a","t","e">>
Amt     == <<"A","m","t">>

ColumnNames == {RecID, XML, DueDate, Amt}

IsoJan5 == <<"2","0","2","4","-","0","1","-","0","5">>
NotADate == <<"n","/","a">>

RawValues ==
    {IntV(0), FloatV(0), IntV(7), StrV(<<>>), NoneV, StrV(NotADate),
     StrV(IsoJan5), TsV(<<2024, 11, 23>>), NaTV}

\* what read_sql can return for one column: NaT only occurs in a datetime
\* column, and a column of datetimes with NULLs holds NaT, not None
RealisticCol(c) ==
    LET kinds == {c.vals[i].kind : i \in 1..Len(c.vals)}
    IN  /\ ("nat" \in kinds => kinds = {"ts", "nat"})
        /\ kinds # {"ts", "none"}

RawTables ==
    UNION { { t \in [1..nc -> [name : ColumnNames, vals : [1..nr -> RawValues]]] :
                /\ \A i, j \in 1..nc : i # j => t[i].name # t[j].name
                /\ \A i \in 1..nc : RealisticCol(t[i]) }
            : nc \in 1..MaxCols, nr \in 1..MaxRows }

(***************************************************************************)
(* The cleaner applied once and twice.                                     *)
(***************************************************************************)
IdleClean == raw = <<>> /\ once = <<>> /\ twice = <<>> /\ stage = "idle"

IdleScrape ==
    /\ url = "none" /\ fetchOk = FALSE /\ page = <<>> /\ raiseAt = 0
    /\ defs = <<>> /\ sstage = "idle"

IdleMerge ==
    /\ p_raw = <<>> /\ i_raw = <<>> /\ p_clean = <<>> /\ i_clean = <<>>
    /\ df4 = <<>> /\ indexer = <<>> /\ mstage = "idle"

IdleExport ==
    /\ run = <<>> /\ files = <<>> /\ msgs = <<>> /\ status = "" /\ logbox = <<>>
    /\ progress = FALSE /\ siteOk = FALSE /\ siteBad = 0

InitClean ==
    /\ variant \in Variants
    /\ raw \in RawTables
    /\ once = <<>>
    /\ twice = <<>>
    /\ stage = "raw"
    /\ IdleScrape
    /\ IdleMerge
    /\ IdleExport

Clean ==
    /\ stage = "raw"
    /\ once' = clean_and_format_df(variant, raw)
    /\ raw' = InputAfterClean(variant, raw)
    /\ stage' = "once"
    /\ UNCHANGED <<variant, twice, scrapeVars, mergeVars, exportVars>>

CleanAgain ==
    /\ stage = "once"
    /\ twice' = clean_and_format_df(variant, once)
    /\ once' = InputAfterClean(variant, once)
    /\ stage' = "twice"
    /\ UNCHANGED <<variant, raw, scrapeVars, mergeVars, exportVars>>

NextClean == Clean \/ CleanAgain

SpecClean == InitClean /\ [][NextClean]_vars

(***************************************************************************)
(* The field-definition scraper, get_field_definitions(url).               *)
(* A cell of the page is the sequence of its nodes in document order: a    *)
(* text node (tag "") with its text, or the start of an element.           *)
(***************************************************************************)
TextNode(s) == [tag |-> "", txt |-> s]
TagNode(t)  == [tag |-> t, txt |-> <<>>]

IsSpace(c) == c \in {" ", "\n", "\t"}

\* str.strip()
RECURSIVE LStrip(_)
LStrip(s) == IF Len(s) > 0 /\ IsSpace(s[1]) THEN LStrip(Tail(s)) ELSE s

RECURSIVE RStrip(_)
RStrip(s) == IF Len(s) > 0 /\ IsSpace(s[Len(s)])
             THEN RStrip(SubSeq(s, 1, Len(s) - 1)) ELSE s

Strip(s) == RStrip(LStrip(s))

\* for tag in desc.find_all(["br", "p", "li"]): tag.insert_before("\n")
RECURSIVE InsertNewlines(_)
InsertNewlines(cell) ==
    IF Len(cell) = 0 THEN <<>>
    ELSE (IF cell[1].tag \in {"br", "p", "li"}
          THEN <<TextNode(<<"\n">>), cell[1]>> ELSE <<cell[1]>>)
         \o InsertNewlines(Tail(cell))

\* Tag.get_text(): the text nodes joined
RECURSIVE GetText(_)
GetText(cell) ==
    IF Len(cell) = 0 THEN <<>> ELSE cell[1].txt \o GetText(Tail(cell))

\* Tag.get_text(strip=True): every text node stripped, then joined
RECURSIVE GetTextStrip(_)
GetTextStrip(cell) ==
    IF Len(cell) = 0 THEN <<>> ELSE Strip(cell[1].txt) \o GetTextStrip(Tail(cell))

\* str.splitlines()
SplitLines(s) == IF Len(s) = 0 THEN <<>> ELSE Split(s, "\n")

\* "\n".join(lines)
RECURSIVE JoinLines(_)
JoinLines(lines) ==
    IF Len(lines) = 0 THEN <<>>
    ELSE IF Len(lines) = 1 THEN lines[1]
    ELSE lines[1] \o <<"\n">> \o JoinLines(Tail(lines))

\* "\n".join(l.strip() for l in desc.get_text().splitlines() if l.strip())
Description(cell) ==
    LET lines    == SplitLines(GetText(InsertNewlines(cell)))
        NonEmpty(l) == Strip(l) # <<>>
        kept     == SelectSeq(lines, NonEmpty)
    IN  JoinLines([i \in 1..Len(kept) |-> Strip(kept[i])])

EmptyMap == <<>>

\* defs[key] = value
MapPut(map, k, d) == [x \in DOMAIN map \cup {k} |-> IF x = k THEN d ELSE map[x]]

\* the body of  for row in soup.find_all("tr")  for one row
ParseRow(map, row) ==
    IF Len(row) >= 2
    THEN MapPut(map, GetTextStrip(row[1]), Description(row[2]))
    ELSE map

\* the loop over the first n rows
RECURSIVE ParseRows(_, _)
ParseRows(rows, n) ==
    IF n = 0 THEN EmptyMap ELSE ParseRow(ParseRows(rows, n - 1), rows[n])

\* get_field_definitions(url): ok is whether the request succeeds, rows the
\* rows of the page, bad the row whose processing raises (0: none).  The
\* except clause swallows the exception and the function returns defs as
\* it stands.
get_field_definitions(u, ok, rows, bad) ==
    IF u = "none" THEN EmptyMap
    ELSE IF ~ok THEN EmptyMap
    ELSE IF bad \in 1..Len(rows) THEN ParseRows(rows, bad - 1)
    ELSE ParseRows(rows, Len(rows))

(***************************************************************************)
(* Inputs of the scraper.                                                  *)
(***************************************************************************)
KeyCells ==
    { <<TextNode(<<"A","m","t">>)>>,
      <<TextNode(<<" ","A","c","c","o","u","n","t","\n">>)>>,
      <<TextNode(<<"D","u","e"," ">>), TagNode("b"), TextNode(<<" ","D","a","t","e">>)>> }

DescCells ==
    { <<TextNode(<<"o","n","e">>)>>,
      <<TextNode(<<" ","o","n","e"," ">>), TagNode("br"), TextNode(<<"t","w","o"," ">>)>>,
      <<TagNode("p"), TextNode(<<"o","n","e">>), TagNode("p"), TextNode(<<" "," ">>),
        TagNode("li"), TextNode(<<"t","w","o">>)>>,
      <<TextNode(<<"o","n","e","\n","\n"," ","t","w","o">>)>> }

PageRows ==
    { <<k>> : k \in KeyCells } \cup { <<k, d>> : k \in KeyCells, d \in DescCells }

Pages == UNION { [1..n -> PageRows] : n \in 0..MaxPageRows }

InitScrape ==
    /\ variant \in Variants
    /\ url \in {"none", "some"}
    /\ fetchOk \in BOOLEAN
    /\ page \in Pages
    /\ raiseAt \in 0..Len(page)
    /\ defs = <<>>
    /\ sstage = "call"
    /\ IdleClean
    /\ IdleMerge
    /\ IdleExport

Scrape ==
    /\ sstage = "call"
    /\ defs' = get_field_definitions(url, fetchOk, page, raiseAt)
    /\ sstage' = "returned"
    /\ UNCHANGED <<variant, url, fetchOk, page, raiseAt, cleanVars, mergeVars, exportVars>>

NextScrape == Scrape

SpecScrape == InitScrape /\ [][NextScrape]_vars

(***************************************************************************)
(* The merged "4-Properties_&_Insurance" table.                            *)
(***************************************************************************)
Account   == <<"A","c","c","o","u","n","t">>
PidName   == <<"_","p","i","d">>
PrefName  == <<"_","p","r","e","f">>
PropRecID == <<"P","r","o","p","R","e","c","I","D">>
Carrier   == <<"C","a","r","r","i","e","r">>
PropertyPrefix  == <<"P","r","o","p","e","r","t","y",":"," ">>
InsurancePrefix == <<"I","n","s","u","r","a","n","c","e",":"," ">>

HasCol(df, n) == \E i \in 1..Len(df) : df[i].name = n

\* df[name]
ColVals(df, n) == (CHOOSE c \in {df[i] : i \in 1..Len(df)} : c.name = n).vals

\* df.drop(columns=names)
DropCols(df, names) ==
    LET Kept(c) == c.name \notin names
    IN  SelectSeq(df, Kept)

\* df.columns = [f"{prefix}{c}" for c in df.columns]
PrefixCols(df, prefix) ==
    [i \in 1..Len(df) |-> Col(prefix \o df[i].name, df[i].vals)]

\* df[name] = values
SetCol(df, n, vs) ==
    IF HasCol(df, n)
    THEN [i \in 1..Len(df) |-> IF df[i].name = n THEN Col(n, vs) ELSE df[i]]
    ELSE Append(df, Col(n, vs))

IsNull(val) == val.kind \in {"none", "nan", "nat"}

\* equality of two join keys (pd.merge matches a missing key with a missing key)
KeyEq(a, b) == IF IsNull(a) \/ IsNull(b) THEN IsNull(a) /\ IsNull(b) ELSE PyEq(a, b)

\* the rows of the right table matching one left key, in the right table's order
RECURSIVE MatchesOf(_, _, _)
MatchesOf(key, rkeys, n) ==
    IF n = 0 THEN <<>>
    ELSE MatchesOf(key, rkeys, n - 1)
         \o (IF KeyEq(key, rkeys[n]) THEN <<n>> ELSE <<>>)

RowPairs(li, ms) ==
    IF Len(ms) = 0 THEN <<<<li, 0>>>> ELSE [j \in 1..Len(ms) |-> <<li, ms[j]>>]

\* an inner join: a left row without a match gives no output row
RECURSIVE LeftJoinIndexer_Inner(_, _, _)
LeftJoinIndexer_Inner(lkeys, rkeys, n) ==
    IF n = 0 THEN <<>>
    ELSE LET ms == MatchesOf(lkeys[n], rkeys, Len(rkeys))
         IN  LeftJoinIndexer_Inner(lkeys, rkeys, n - 1)
             \o [j \in 1..Len(ms) |-> <<n, ms[j]>>]

\* a join that emits the matched rows in the right table's order first
RECURSIVE LeftJoinIndexer_RightOrder(_, _, _)
LeftJoinIndexer_RightOrder(lkeys, rkeys, n) ==
    IF n = 0 THEN <<>>
    ELSE RowPairs(n, MatchesOf(lkeys[n], rkeys, Len(rkeys)))
         \o LeftJoinIndexer_RightOrder(lkeys, rkeys, n - 1)

\* pd.merge(how="left"): for the first n left rows in order, one output row
\* per matching right row, or one row with no right row (0)
RECURSIVE LeftJoinIndexer(_, _, _)
LeftJoinIndexer(lkeys, rkeys, n) ==
    IF n = 0 THEN <<>>
    ELSE LeftJoinIndexer(lkeys, rkeys, n - 1)
         \o RowPairs(n, MatchesOf(lkeys[n], rkeys, Len(rkeys)))

\* the columns of one side of the merge taken through the indexer; a row
\* without a partner is filled with missing values
TakeRows(df, idx, side) ==
    [i \in 1..Len(df) |->
        Col(df[i].name,
            [j \in 1..Len(idx) |->
                IF idx[j][side] = 0 THEN NaNV ELSE df[i].vals[idx[j][side]]])]

\* pd.merge(left, right, left_on=lk, right_on=rk, how="left") given its indexer
MergeLeft(left, right, idx) == TakeRows(left, idx, 1) \o TakeRows(right, idx, 2)

\* df4[['Account'] + [c for c in df4.columns if c != 'Account']]
AccountFirst(df) ==
    LET IsAcc(c) == c.name = Account
        NotAcc(c) == c.name # Account
    IN  SelectSeq(df, IsAcc) \o SelectSeq(df, NotAcc)

(***************************************************************************)
(* Inputs of the merged sheet: what the two queries return.                *)
(***************************************************************************)
PropColumnNames == {Amt, DueDate}

PropValues == {StrV(<<>>), StrV(NotADate), TsV(<<2024, 11, 23>>)}

InsValues == {StrV(<<>>), IntV(7)}

\* p.RecID is a primary key: distinct, never NULL; the query result is in
\* no particular order
PidOrders(n) == {[r \in 1..n |-> IntV(r)], [r \in 1..n |-> IntV(n + 1 - r)]}

\* SELECT l.Account, p.RecID AS _pid, p.* ...
PropTables ==
    UNION { { <<Col(Account, [r \in 1..n |-> StrV(<<"L", DigitChar(r)>>)]),
                Col(PidName, pids), Col(RecID, pids), Col(nm, vs)>>
              : pids \in PidOrders(n), nm \in PropColumnNames,
                vs \in {c \in [1..n -> PropValues] : RealisticCol(Col(Amt, c))} }
            : n \in 1..MaxProps }

\* Insurance.PropRecID: a property's RecID, the RecID of no property in the
\* result, or NULL (NaN in a numeric column)
PrefValues == {IntV(r) : r \in 1..MaxProps} \cup {IntV(9), NaNV}

\* SELECT * FROM [TDS Insurance]
InsTables ==
    UNION { { <<Col(RecID, [r \in 1..n |-> IntV(r)]), Col(PropRecID, prefs),
                Col(Carrier, vs)>>
              : prefs \in [1..n -> PrefValues], vs \in [1..n -> InsValues] }
            : n \in 0..MaxIns }

InitMerge ==
    /\ variant \in Variants
    /\ p_raw \in PropTables
    /\ i_raw \in InsTables
    /\ p_clean = <<>> /\ i_clean = <<>> /\ df4 = <<>> /\ indexer = <<>>
    /\ mstage = "read"
    /\ IdleClean
    /\ IdleScrape
    /\ IdleExport

\* clean_and_format_df(p_raw.drop(columns=["Account", "_pid"]), ...): the
\* frames after the call, p_raw being frame 1
PropsCall(v, praw) ==
    LET t == NewFrame(<<praw>>, 1, DropCols(praw, {Account, PidName}))
    IN  CleanCall(v, t.heap, t.ref)

\* p_clean = clean_and_format_df(p_raw.drop(columns=["Account", "_pid"]), ...)
\* and the three statements after it, which read p_raw after the call
PropsPrepared(v, praw) ==
    LET c  == PropsCall(v, praw)
        c1 == c.heap[c.ref]
        c2 == PrefixCols(c1, PropertyPrefix)
        c3 == SetCol(c2, Account, ColVals(c.heap[1], Account))
    IN  SetCol(c3, PidName, ColVals(c.heap[1], PidName))

\* i_clean = clean_and_format_df(i_raw, ...) and the two statements after it,
\* which read i_raw after the call
InsPrepared(v, iraw) ==
    LET c1 == clean_and_format_df(v, iraw)
        c2 == PrefixCols(c1, InsurancePrefix)
    IN  SetCol(c2, PrefName, ColVals(InputAfterClean(v, iraw), PropRecID))

\* the row indexers pd.merge computes from the two key columns
MergeIndexer(pc, ic) ==
    LeftJoinIndexer(ColVals(pc, PidName), ColVals(ic, PrefName),
                    Len(ColVals(pc, PidName)))

\* df4 = pd.merge(...).drop(columns=["_pid", "_pref"]), and in variant 3 the
\* move of Account to the front
MergedSheet(v, pc, ic) ==
    LET m == DropCols(MergeLeft(pc, ic, MergeIndexer(pc, ic)), {PidName, PrefName})
    IN  IF v = 3 THEN AccountFirst(m) ELSE m

PrepareProps ==
    /\ mstage = "read"
    /\ p_clean' = PropsPrepared(variant, p_raw)
    /\ p_raw' = PropsCall(variant, p_raw).heap[1]
    /\ mstage' = "props"
    /\ UNCHANGED <<variant, i_raw, i_clean, df4, indexer, cleanVars, scrapeVars, exportVars>>

PrepareIns ==
    /\ mstage = "props"
    /\ i_clean' = InsPrepared(variant, i_raw)
    /\ i_raw' = InputAfterClean(variant, i_raw)
    /\ mstage' = "ins"
    /\ UNCHANGED <<variant, p_raw, p_clean, df4, indexer, cleanVars, scrapeVars, exportVars>>

Merge ==
    /\ mstage = "ins"
    /\ indexer' = MergeIndexer(p_clean, i_clean)
    /\ df4' = MergedSheet(variant, p_clean, i_clean)
    /\ mstage' = "merged"
    /\ UNCHANGED <<variant, p_raw, i_raw, p_clean, i_clean, cleanVars, scrapeVars, exportVars>>

NextMerge == PrepareProps \/ PrepareIns \/ Merge

SpecMerge == InitMerge /\ [][NextMerge]_vars

\* cleaning of single tables and the merged sheet together
SpecTables == (InitClean \/ InitMerge) /\ [][NextClean \/ NextMerge]_vars

(***************************************************************************)
(* The export pipeline: run_export (variant 1) and run_production_export   *)
(* (variants 2 and 3).                                                     *)
(***************************************************************************)
Workers == 1..MaxPresses

\* the number of workbooks of each variant
NSheets(v) == IF v = 3 THEN 6 ELSE 4

\* MAPPING_LINKS.get(name): the first four sheets have a documentation URL
SheetUrl(k) == IF k \in 1..4 THEN "some" ELSE "none"

LoanAccountName   == <<"L","o","a","n","_","A","c","c","o","u","n","t">>
LenderAccountName == <<"L","e","n","d","e","r","_","A","c","c","o","u","n","t">>
FeePct            == <<"F","e","e","P","c","t">>
LoanAccountLabel  == <<"L","o","a","n"," ","A","c","c","o","u","n","t">>
ReserveBalance    == <<"R","e","s","e","r","v","e","B","a","l","a","n","c","e">>
ImpoundBalance    == <<"I","m","p","o","u","n","d","B","a","l","a","n","c","e">>

\* what the fixed queries return in the modelled database
LoansResult ==
    << Col(RecID, <<IntV(1), IntV(2)>>),
       Col(Account, <<StrV(<<"L","1">>), StrV(<<"L","2">>)>>),
       Col(DueDate, <<StrV(IsoJan5), NoneV>>),
       Col(XML, <<StrV(NotADate), StrV(NotADate)>>) >>

CoBorrowersResult ==
    << Col(Account, <<StrV(<<"L","1">>), StrV(<<"L","1">>)>>),
       Col(RecID, <<IntV(1), IntV(2)>>),
       Col(Amt, <<IntV(0), FloatV(0)>>) >>

FundingsResult ==
    << Col(LoanAccountName, <<StrV(<<"L","1">>)>>),
       Col(LenderAccountName, <<StrV(<<"L","2">>)>>),
       Col(RecID, <<IntV(1)>>),
       Col(FeePct, <<IntV(7)>>) >>

PropertiesResult ==
    << Col(Account, <<StrV(<<"L","1">>), StrV(<<"L","2">>)>>),
       Col(PidName, <<IntV(2), IntV(1)>>),
       Col(RecID, <<IntV(2), IntV(1)>>),
       Col(Amt, <<IntV(7), IntV(0)>>) >>

InsuranceResult ==
    << Col(RecID, <<IntV(1), IntV(2)>>),
       Col(PropRecID, <<IntV(1), IntV(1)>>),
       Col(Carrier, <<StrV(NotADate), IntV(7)>>) >>

VouchersResult ==
    << Col(Account, <<StrV(<<"L","1">>)>>), Col(Amt, <<IntV(7)>>) >>

HistoryResult ==
    << Col(Account, <<StrV(<<"L","2">>)>>), Col(DueDate, <<TsV(<<2024, 11, 23>>)>>) >>

EndsWith(s, suf) ==
    Len(s) >= Len(suf) /\ SubSeq(s, Len(s) - Len(suf) + 1, Len(s)) = suf

\* new_names of variant 3: a trailing Pct / Flat / Min becomes _Pct / _Flat / _Min
RenameSuffix(n) ==
    IF EndsWith(n, <<"P","c","t">>)
    THEN SubSeq(n, 1, Len(n) - 3) \o <<"_","P","c","t">>
    ELSE IF EndsWith(n, <<"F","l","a","t">>)
    THEN SubSeq(n, 1, Len(n) - 4) \o <<"_","F","l","a","t">>
    ELSE IF EndsWith(n, <<"M","i","n">>)
    THEN SubSeq(n, 1, Len(n) - 3) \o <<"_","M","i","n">>
    ELSE n

\* df3.rename(columns=new_names) and df3 = df3[cols3] of variant 3
FundingsPost(df) ==
    LET renamed == [i \in 1..Len(df) |-> Col(RenameSuffix(df[i].name), df[i].vals)]
        IsLoan(c)   == c.name = LoanAccountName
        IsLender(c) == c.name = LenderAccountName
        IsRest(c)   == c.name \notin {LoanAccountName, LenderAccountName}
    IN  SelectSeq(renamed, IsLoan) \o SelectSeq(renamed, IsLender)
        \o SelectSeq(renamed, IsRest)

\* df.rename(columns={old: new})
RenameCol(df, old, new) ==
    [i \in 1..Len(df) |-> IF df[i].name = old THEN Col(new, df[i].vals) ELSE df[i]]

\* a column holding "" in each of n rows
BlankCol(n, rows) == Col(n, [r \in 1..rows |-> StrV(<<>>)])

\* the table of sheet k as it is handed to to_excel
SheetTable(v, k) ==
    CASE k = 1 ->
           LET c == clean_and_format_df(v, LoansResult)
           IN  IF v = 1 THEN c
               ELSE c \o <<BlankCol(ReserveBalance, NRows(LoansResult)),
                           BlankCol(ImpoundBalance, NRows(LoansResult))>>
      [] k = 2 -> clean_and_format_df(v, CoBorrowersResult)
      [] k = 3 ->
           LET c == clean_and_format_df(v, FundingsResult)
           IN  IF v = 3 THEN FundingsPost(c) ELSE c
      [] k = 4 ->
           MergedSheet(v, PropsPrepared(v, PropertiesResult),
                       InsPrepared(v, InsuranceResult))
      [] k = 5 ->
           RenameCol(clean_and_format_df(v, VouchersResult), Account, LoanAccountLabel)
      [] OTHER -> clean_and_format_df(v, HistoryResult)

\* the rows of the help page behind every documentation URL
HelpPage ==
    << << <<TextNode(<<" ","A","c","c","o","u","n","t","\n">>)>>,
          <<TextNode(<<"o","n","e">>)>> >>,
       << <<TextNode(<<"A","m","t">>)>>,
          <<TextNode(<<"o","n","e">>), TagNode("br"), TextNode(<<"t","w","o">>)>> >>,
       << <<TextNode(<<"C","a","r","r","i","e","r">>)>>,
          <<TagNode("p"), TextNode(<<"t","w","o">>)>> >> >>

\* str.replace(sub, "")
RECURSIVE RemoveAll(_, _)
RemoveAll(s, sub) ==
    IF Len(s) < Len(sub) \/ Len(sub) = 0 THEN s
    ELSE IF SubSeq(s, 1, Len(sub)) = sub
    THEN RemoveAll(SubSeq(s, Len(sub) + 1, Len(s)), sub)
    ELSE <<s[1]>> \o RemoveAll(Tail(s), sub)

\* the lookup key of a header cell
HeaderKey(v, h) ==
    IF v = 1 THEN h
    ELSE RemoveAll(RemoveAll(h, PropertyPrefix), InsurancePrefix)

\* the comments put on the header cells of a loaded workbook
HeaderComments(v, k, table, ok, bad) ==
    LET d == IF v = 1 \/ SheetUrl(k) = "some"
             THEN get_field_definitions(SheetUrl(k), ok, HelpPage, bad)
             ELSE EmptyMap
        hs == {table[i].name : i \in 1..Len(table)}
    IN  [h \in {x \in hs : HeaderKey(v, x) \in DOMAIN d} |-> d[HeaderKey(v, h)]]

Op(kind, k) == [kind |-> kind, sheet |-> k]

\* query, write, annotate and save of sheets k..n, sheet by sheet
RECURSIVE SheetBySheet(_, _)
SheetBySheet(k, n) ==
    IF k > n THEN <<>>
    ELSE <<Op("query", k), Op("write", k), Op("annotate", k), Op("save", k)>>
         \o SheetBySheet(k + 1, n)

RECURSIVE Queries(_, _)
Queries(k, n) == IF k > n THEN <<>> ELSE <<Op("query", k)>> \o Queries(k + 1, n)

RECURSIVE WriteLoop(_, _)
WriteLoop(k, n) ==
    IF k > n THEN <<>>
    ELSE <<Op("write", k), Op("annotate", k), Op("save", k)>> \o WriteLoop(k + 1, n)

\* the statements of the try block in order.  Variant 1 exports sheets 1..3
\* one by one through export(), then builds and writes sheet 4 without
\* annotating it; variants 2 and 3 run every query first and then loop over
\* the workbooks.
Program(v) ==
    IF v = 1
    THEN <<Op("connect", 0)>> \o SheetBySheet(1, 3)
         \o <<Op("query", 4), Op("write", 4), Op("close", 0), Op("success", 0)>>
    ELSE <<Op("connect", 0)>> \o Queries(1, NSheets(v)) \o WriteLoop(1, NSheets(v))
         \o <<Op("close", 0), Op("success", 0)>>

NoFile == [state |-> "absent", table |-> <<>>, comments |-> EmptyMap, writer |-> 0]

IdleRun ==
    [state |-> "idle", ip |-> 1, conn |-> "none", dfs |-> [k \in 1..6 |-> <<>>],
     wb |-> NoFile, exc |-> <<>>, trace |-> <<>>, stopped |-> FALSE]

StartedRun == [IdleRun EXCEPT !.state = "running"]

CurOp(w) == Program(variant)[run[w].ip]

At(w, kind) == run[w].state = "running" /\ CurOp(w).kind = kind

\* the statement at ip completed
Advance(r, op) == [r EXCEPT !.ip = r.ip + 1, !.trace = Append(r.trace, op)]

\* str(e) of the exception a statement raises
ExcText(op) == <<op.kind, op.sheet>>

\* an except clause that swallows the exception and carries on
Failed_KeepsGoing(r, op) ==
    [r EXCEPT !.ip = r.ip + 1, !.exc = ExcText(op), !.trace = Append(r.trace, op)]

\* an except clause that also closes the connection
Failed_ClosesConn(r, op) ==
    [r EXCEPT !.state = "failed", !.exc = ExcText(op),
              !.trace = Append(r.trace, op), !.conn = "closed"]

\* the statement at ip raised: control leaves the try block
Failed(r, op) ==
    [r EXCEPT !.state = "failed", !.exc = ExcText(op), !.trace = Append(r.trace, op)]

\* set_status(msg) exists in variant 1 only
SetStatus(msg) == status' = IF variant = 1 THEN msg ELSE status

InitFiles == files = [k \in 1..6 |-> NoFile]

InitSite == siteOk \in BOOLEAN /\ siteBad \in 0..Len(HelpPage)

\* one invocation of the export function
Init ==
    /\ variant \in Variants
    /\ run = [w \in Workers |-> IF w = 1 THEN StartedRun ELSE IdleRun]
    /\ InitFiles
    /\ msgs = <<>>
    /\ status = "Ready"
    /\ logbox = <<>>
    /\ progress = FALSE
    /\ InitSite
    /\ IdleClean /\ IdleScrape /\ IdleMerge

\* the form of variant 1 waiting for the run button
InitThread ==
    /\ variant = 1
    /\ run = [w \in Workers |-> IdleRun]
    /\ InitFiles
    /\ msgs = <<>>
    /\ status = "Ready"
    /\ logbox = <<>>
    /\ progress = FALSE
    /\ InitSite
    /\ IdleClean /\ IdleScrape /\ IdleMerge

otherVars == <<variant, cleanVars, scrapeVars, mergeVars, siteOk, siteBad>>

\* run(): progress.start() and a new thread running run_export
Press ==
    /\ \E w \in Workers :
          /\ run[w].state = "idle"
          /\ \A u \in Workers : u < w => run[u].state # "idle"
          /\ run' = [run EXCEPT ![w] = StartedRun]
    /\ progress' = TRUE
    /\ UNCHANGED <<files, msgs, status, logbox, otherVars>>

\* set_status("Connecting..."), connect(), os.makedirs()
Connect(w) ==
    /\ At(w, "connect")
    /\ run' = [run EXCEPT ![w] = [Advance(run[w], CurOp(w)) EXCEPT !.conn = "open"]]
    /\ SetStatus("Connecting")
    /\ UNCHANGED <<files, msgs, logbox, progress, otherVars>>

\* pd.read_sql, clean_and_format_df and the sheet's post-processing
Query(w) ==
    /\ At(w, "query")
    /\ LET k == CurOp(w).sheet
       IN  run' = [run EXCEPT ![w] =
                      [Advance(run[w], CurOp(w)) EXCEPT
                          !.dfs[k] = SheetTable(variant, k)]]
    /\ SetStatus("Exporting")
    /\ UNCHANGED <<files, msgs, logbox, progress, otherVars>>

\* df.to_excel(path, index=False)
Write(w) ==
    /\ At(w, "write")
    /\ LET k == CurOp(w).sheet
       IN  files' = [files EXCEPT ![k] =
                        [state |-> "written", table |-> run[w].dfs[k],
                         comments |-> EmptyMap, writer |-> w]]
    /\ run' = [run EXCEPT ![w] = Advance(run[w], CurOp(w))]
    /\ UNCHANGED <<msgs, status, logbox, progress, otherVars>>

\* load_workbook(path), the column widths, get_field_definitions and the
\* comments on the header row
Annotate(w) ==
    /\ At(w, "annotate")
    /\ LET k == CurOp(w).sheet
       IN  /\ files[k].state \in {"written", "saved"}
           /\ run' = [run EXCEPT ![w] =
                         [Advance(run[w], CurOp(w)) EXCEPT
                             !.wb = [files[k] EXCEPT
                                        !.comments = HeaderComments(variant, k,
                                                        files[k].table, siteOk, siteBad),
                                        !.writer = w]]]
    /\ UNCHANGED <<files, msgs, status, logbox, progress, otherVars>>

\* wb.save(path), and log() in variant 1
Save(w) ==
    /\ At(w, "save")
    /\ LET k == CurOp(w).sheet
       IN  /\ files' = [files EXCEPT ![k] = [run[w].wb EXCEPT !.state = "saved"]]
           /\ logbox' = IF variant = 1 THEN Append(logbox, k) ELSE logbox
    /\ run' = [run EXCEPT ![w] = Advance(run[w], CurOp(w))]
    /\ UNCHANGED <<msgs, status, progress, otherVars>>

\* conn.close()
Close(w) ==
    /\ At(w, "close")
    /\ run' = [run EXCEPT ![w] = [Advance(run[w], CurOp(w)) EXCEPT !.conn = "closed"]]
    /\ UNCHANGED <<files, msgs, status, logbox, progress, otherVars>>

\* set_status("Completed") and messagebox.showinfo
ShowSuccess(w) ==
    /\ At(w, "success")
    /\ run' = [run EXCEPT ![w] =
                  [Advance(run[w], CurOp(w)) EXCEPT !.state = "succeeded"]]
    /\ msgs' = Append(msgs, [kind |-> "success", text |-> <<>>, by |-> w])
    /\ SetStatus("Completed")
    /\ UNCHANGED <<files, logbox, progress, otherVars>>

\* a statement of the try block raises, and the except clause runs:
\* set_status("Error") and messagebox.showerror("Error", str(e)).  A failed
\* to_excel or save may leave a broken file behind.
Raise(w) ==
    /\ run[w].state = "running"
    /\ CurOp(w).kind \in {"connect", "query", "write", "annotate", "save", "close"}
    /\ LET op == CurOp(w)
       IN  /\ run' = [run EXCEPT ![w] = Failed(run[w], op)]
           /\ msgs' = Append(msgs, [kind |-> "error", text |-> ExcText(op), by |-> w])
           /\ \/ UNCHANGED files
              \/ /\ op.kind \in {"write", "save"}
                 /\ files' = [files EXCEPT ![op.sheet] =
                                 [NoFile EXCEPT !.state = "broken", !.writer = w]]
    /\ SetStatus("Error")
    /\ UNCHANGED <<logbox, progress, otherVars>>

\* progress.stop(), the last statement of the thread
StopProgress(w) ==
    /\ run[w].state \in {"succeeded", "failed"}
    /\ ~run[w].stopped
    /\ run' = [run EXCEPT ![w].stopped = TRUE]
    /\ progress' = FALSE
    /\ UNCHANGED <<files, msgs, status, logbox, otherVars>>

StepOf(w) ==
    \/ Connect(w) \/ Query(w) \/ Write(w) \/ Annotate(w) \/ Save(w)
    \/ Close(w) \/ ShowSuccess(w) \/ Raise(w)

Next == \E w \in Workers : StepOf(w)

Spec == Init /\ [][Next]_vars

NextThread == Press \/ \E w \in Workers : (StepOf(w) \/ StopProgress(w))

SpecThread == InitThread /\ [][NextThread]_vars

(***************************************************************************)
(* Claims about the cleaner (checked under SpecClean).                     *)
(***************************************************************************)
\* a value of {0, 0.0, "0", "0.0", "", " ", "NULL", "null", null}
IsEmptyOrZero(val) ==
    \/ (val.kind \in {"int", "float"} /\ val.num = 0)
    \/ (val.kind = "str" /\ val.txt \in {<<"0">>, <<"0",".","0">>, <<>>, <<" ">>,
                                         <<"N","U","L","L">>, <<"n","u","l","l">>})
    \/ val.kind \in {"none", "nan", "nat"}

Populated(c) == \A i \in 1..Len(c.vals) : ~IsEmptyOrZero(c.vals[i])

\* the name contains "recid" in any letter case
HasRecidAnyCase(n) ==
    \E i \in 1..(Len(n) - 4) :
        /\ n[i] \in {"r", "R"} /\ n[i + 1] \in {"e", "E"} /\ n[i + 2] \in {"c", "C"}
        /\ n[i + 3] \in {"i", "I"} /\ n[i + 4] \in {"d", "D"}

\* the name contains "date" in any letter case
HasDateAnyCase(n) ==
    \E i \in 1..(Len(n) - 3) :
        /\ n[i] \in {"d", "D"} /\ n[i + 1] \in {"a", "A"}
        /\ n[i + 2] \in {"t", "T"} /\ n[i + 3] \in {"e", "E"}

\* the column of the input table that an output column comes from
RawColumn(n) == CHOOSE c \in {raw[i] : i \in 1..Len(raw)} : c.name = n

\* C1: cleaning is idempotent: cleaning the cleaned table gives the same
\* table (same columns, same order, same values), in every variant.
C1_CleaningIdempotent == stage = "twice" => twice = once

\* C2: no column of the table returned by clean_and_format_df has every
\* value in {0, 0.0, "0", "0.0", "", " ", "NULL", "null", null}.
C2_NoEmptyColumnReturned ==
    stage # "raw" =>
        \A i \in 1..Len(once) : \E r \in 1..Len(once[i].vals) :
            ~IsEmptyOrZero(once[i].vals[r])

\* C3: in a surviving column whose name contains "date", every parseable
\* value is rendered as month/day/year text and every value that fails to
\* parse (malformed text or null) is rendered as the empty string.
C3_DateRendering ==
    stage # "raw" =>
        \A i \in 1..Len(once) :
            HasDateAnyCase(once[i].name) =>
                \A r \in 1..Len(once[i].vals) :
                    LET in  == RawColumn(once[i].name).vals[r]
                        out == once[i].vals[r]
                        d   == ToDatetime(in)
                    IN  IF d = <<>> THEN out = StrV(<<>>)
                        ELSE out \in {StrV(StrftimePadded(d)),
                                      StrV(StrftimePlain(d))}

\* C4: the returned table has no column whose name contains "recid" in any
\* letter case and no column whose name is in the omission list.
C4_NoRecidNoOmitted ==
    stage # "raw" =>
        \A i \in 1..Len(once) :
            /\ ~HasRecidAnyCase(once[i].name)
            /\ once[i].name \notin OMISSIONS

\* C4 witness: a fully populated recid column and a fully populated omitted
\* column were handed to the cleaner.
C4_Witness ==
    /\ stage = "once"
    /\ \E i \in 1..Len(raw) : HasRecidAnyCase(raw[i].name) /\ Populated(raw[i])
    /\ \E i \in 1..Len(raw) : raw[i].name \in OMISSIONS /\ Populated(raw[i])

(***************************************************************************)
(* Claims about the scraper (checked under SpecScrape).                    *)
(***************************************************************************)
\* the fetch or the parse of this call failed
ScrapeFailed == url = "some" /\ (~fetchOk \/ raiseAt \in 1..Len(page))

\* C5: whenever the fetch or the parse fails in any way, also at a row
\* after some rows were already parsed, get_field_definitions returns the
\* empty map; an absent URL returns the empty map as well.
C5_FailureGivesEmptyMap ==
    sstage = "returned" => ((ScrapeFailed \/ url = "none") => DOMAIN defs = {})

(***************************************************************************)
(* Claims about the merged sheet (checked under SpecMerge / SpecTables).   *)
(***************************************************************************)
StartsWith(s, pre) == Len(s) >= Len(pre) /\ SubSeq(s, 1, Len(pre)) = pre

Columns(df) == {df[i] : i \in 1..Len(df)}

\* the output rows that come from property row p
OutRowsOf(p) == {j \in 1..Len(indexer) : indexer[j][1] = p}

\* the insurance rows whose PropRecID equals the record id of property row p
InsRowsOf(p) ==
    LET pid   == ColVals(p_raw, PidName)[p]
        prefs == ColVals(i_raw, PropRecID)
    IN  {r \in 1..Len(prefs) : prefs[r].kind = "int" /\ prefs[r].num = pid.num}

Max(a, b) == IF a >= b THEN a ELSE b

\* C6: every property row p gives exactly max(1, k) output rows, k the
\* number of insurance rows whose PropRecID is p's record id; with k >= 1
\* there is one row per matching insurance row, all with p's property
\* values; with k = 0 the one row has every insurance column empty; no row
\* comes from an insurance row alone; _pid and _pref are not in the output.
C6_MergedSheetRows ==
    mstage = "merged" =>
        /\ \A c \in Columns(df4) : Len(c.vals) = Len(indexer)
        /\ \A j \in 1..Len(indexer) : indexer[j][1] \in 1..NRows(p_raw)
        /\ \A p \in 1..NRows(p_raw) :
              LET k == Cardinality(InsRowsOf(p))
              IN  /\ Cardinality(OutRowsOf(p)) = Max(1, k)
                  /\ k >= 1 => {indexer[j][2] : j \in OutRowsOf(p)} = InsRowsOf(p)
                  /\ \A j \in OutRowsOf(p) : \A c \in Columns(df4) :
                        /\ (StartsWith(c.name, PropertyPrefix) \/ c.name = Account)
                              => c.vals[j] = ColVals(p_clean, c.name)[p]
                        /\ StartsWith(c.name, InsurancePrefix) =>
                              IF k = 0 THEN c.vals[j].kind \in {"none", "nan", "nat"}
                              ELSE c.vals[j] = ColVals(i_clean, c.name)[indexer[j][2]]
        /\ \A c \in Columns(df4) : c.name \notin {PidName, PrefName}

\* C6 witness: one property has two insurance rows, another has none, an
\* insurance row matches no property, and an insurance column was merged.
C6_Witness ==
    /\ mstage = "merged"
    /\ \E p \in 1..NRows(p_raw) : Cardinality(InsRowsOf(p)) = 2
    /\ \E p \in 1..NRows(p_raw) : Cardinality(InsRowsOf(p)) = 0
    /\ \E c \in Columns(df4) : StartsWith(c.name, InsurancePrefix)
    /\ \E c \in Columns(df4) :
          StartsWith(c.name, PropertyPrefix) /\ c.vals[1] # c.vals[Len(c.vals)]

\* every cell of the column is a Timestamp or NaT, with at least one Timestamp
DatetimeTyped(c) ==
    /\ \A r \in 1..Len(c.vals) : c.vals[r].kind \in {"ts", "nat"}
    /\ \E r \in 1..Len(c.vals) : c.vals[r].kind = "ts"

\* the columns cleaning may rewrite: by name only (byName), or as the
\* variant decides
DateLike(c, byName) ==
    \/ HasDateAnyCase(c.name)
    \/ (~byName /\ variant = 3 /\ DatetimeTyped(c))

\* out, whose columns carry the prefix pre, keeps the rows of in: the same
\* number of rows, and the input's values in every column not date-like
KeepsRows(in, out, pre, byName) ==
    \A c \in Columns(in) : \A o \in Columns(out) :
        o.name = pre \o c.name =>
            /\ Len(o.vals) = Len(c.vals)
            /\ ~DateLike(c, byName) => o.vals = c.vals

\* the merged rows follow the order of the property rows
MergedInPropertyOrder ==
    /\ \A j1, j2 \in 1..Len(indexer) : j1 < j2 => indexer[j1][1] <= indexer[j2][1]
    /\ \A p \in 1..NRows(p_raw) : OutRowsOf(p) # {}
    /\ \A j \in 1..Len(indexer) :
          ColVals(df4, Account)[j] = ColVals(p_raw, Account)[indexer[j][1]]

RowsKept(byName) ==
    /\ stage \in {"once", "twice"} => KeepsRows(raw, once, <<>>, byName)
    /\ mstage \in {"props", "ins", "merged"} =>
          KeepsRows(p_raw, p_clean, PropertyPrefix, byName)
    /\ mstage \in {"ins", "merged"} =>
          KeepsRows(i_raw, i_clean, InsurancePrefix, byName)
    /\ mstage = "merged" => MergedInPropertyOrder

\* C10 as stated: cleaning keeps the number and order of rows and the value
\* of every surviving column whose name does not contain "date"; the merged
\* rows follow the order of the property rows.
C10_RowsKeptByName == RowsKept(TRUE)

\* C10 amended: as C10, the columns left unchanged being those that are not
\* date-named and, in variant 3, not datetime-typed either.
C10_RowsKept == RowsKept(FALSE)

\* C10 witness: variant 3 merged a properties result listed in descending
\* record id whose datetime-typed Amt column was rewritten as text, and a
\* property matched two insurance rows.
C10_Witness ==
    /\ mstage = "merged"
    /\ variant = 3
    /\ HasCol(p_raw, Amt)
    /\ DatetimeTyped(Col(Amt, ColVals(p_raw, Amt)))
    /\ \E c \in Columns(p_clean) :
          c.name = PropertyPrefix \o Amt /\ c.vals # ColVals(p_raw, Amt)
    /\ Len(indexer) > NRows(p_raw)
    /\ NRows(p_raw) = 2 /\ ColVals(p_raw, PidName)[1].num > ColVals(p_raw, PidName)[2].num

(***************************************************************************)
(* Claims about the export pipeline (checked under Spec and SpecThread).   *)
(***************************************************************************)
\* a header with its entity prefix removed
EntityStripped(h) ==
    IF StartsWith(h, PropertyPrefix) THEN SubSeq(h, Len(PropertyPrefix) + 1, Len(h))
    ELSE IF StartsWith(h, InsurancePrefix) THEN SubSeq(h, Len(InsurancePrefix) + 1, Len(h))
    ELSE h

\* the field-definition map of sheet k as the help site serves it
SheetDefs(k) == get_field_definitions(SheetUrl(k), siteOk, HelpPage, siteBad)

\* the comments a sheet with a documentation URL has to carry
ExpectedComments(k, table) ==
    LET d  == SheetDefs(k)
        hs == {table[i].name : i \in 1..Len(table)}
    IN  [h \in {x \in hs : EntityStripped(x) \in DOMAIN d} |-> d[EntityStripped(h)]]

\* C7: once an export has succeeded, every sheet that has a documentation
\* URL, the merged sheet 4 included, is on disk and each of its header cells
\* whose prefix-stripped text is a key of the sheet's field-definition map
\* carries exactly that key's description as its comment, while the other
\* header cells carry no comment.
C7_HeaderComments ==
    \A w \in Workers :
        run[w].state = "succeeded" =>
            \A k \in 1..NSheets(variant) :
                SheetUrl(k) = "some" =>
                    /\ files[k].state \in {"written", "saved"}
                    /\ files[k].comments = ExpectedComments(k, files[k].table)

MsgsOf(w, kind) == {i \in 1..Len(msgs) : msgs[i].by = w /\ msgs[i].kind = kind}

Errored(w) == MsgsOf(w, "error") # {}

FailedOp(w) == run[w].trace[Len(run[w].trace)]

\* no statement was attempted twice
NoRetry(w) ==
    \A i, j \in 1..Len(run[w].trace) : i # j => run[w].trace[i] # run[w].trace[j]

\* the run stopped at the statement that raised
Aborted(w) ==
    /\ run[w].state = "failed"
    /\ Len(run[w].trace) = run[w].ip
    /\ FailedOp(w) = Program(variant)[run[w].ip]

\* one error message with the exception text and no success message
OneError(w) ==
    /\ Cardinality(MsgsOf(w, "error")) = 1
    /\ \A i \in MsgsOf(w, "error") : msgs[i].text = ExcText(FailedOp(w))
    /\ MsgsOf(w, "success") = {}

\* sheet j is on disk with everything the variant does to it
Complete(j) ==
    /\ files[j].state = IF variant = 1 /\ j = 4 THEN "written" ELSE "saved"
    /\ files[j].table = SheetTable(variant, j)

EarlierComplete(k) == \A j \in 1..(k - 1) : Complete(j)

\* C8 as stated: whenever a step raises while sheet k is processed, the
\* files of sheets 1..k-1 are complete on disk, no step of a later sheet has
\* run, nothing was retried, exactly one error message with the exception
\* text is shown and no success message.
C8_AbortKeepsEarlierSheets ==
    \A w \in Workers :
        Errored(w) =>
            /\ Aborted(w)
            /\ NoRetry(w)
            /\ OneError(w)
            /\ FailedOp(w).sheet >= 1 =>
                  /\ EarlierComplete(FailedOp(w).sheet)
                  /\ \A i \in 1..Len(run[w].trace) :
                        run[w].trace[i].sheet <= FailedOp(w).sheet

\* C8, amended: whenever a step raises, the run stops there, nothing was
\* retried, exactly one error message with the exception text is shown and
\* no success message.  The files of sheets 1..k-1 are complete when the
\* raising step belongs to the write, annotate or save of sheet k (or to any
\* step of sheet k in variant 1); of later sheets nothing but the query has
\* run.  In variants 2 and 3 a step that raises in the query of sheet k
\* leaves no file at all, because every query runs before the first write.
C8_AbortInWritePhase ==
    \A w \in Workers :
        Errored(w) =>
            /\ Aborted(w)
            /\ NoRetry(w)
            /\ OneError(w)
            /\ LET op == FailedOp(w)
               IN  /\ (op.sheet >= 1 /\ (variant = 1 \/ op.kind # "query")) =>
                          /\ EarlierComplete(op.sheet)
                          /\ \A i \in 1..Len(run[w].trace) :
                                run[w].trace[i].sheet > op.sheet =>
                                    (variant # 1 /\ run[w].trace[i].kind = "query")
                   /\ (op.sheet >= 1 /\ variant # 1 /\ op.kind = "query") =>
                          \A j \in 1..NSheets(variant) : files[j].state = "absent"

\* the write of sheet 3 raised after sheets 1 and 2 were saved
C8_Witness ==
    \E w \in Workers :
        /\ Errored(w)
        /\ FailedOp(w) = Op("write", 3)
        /\ files[1].state = "saved"
        /\ files[2].state = "saved"
        /\ variant = 3

Active == {w \in Workers : run[w].state = "running"}

\* C9: in the threaded variant at most one export worker is active at any
\* time, whatever the presses of the run button, so no two exports write the
\* status line, the log panel, the progress indicator or the output files
\* concurrently.
C9_OneWorkerAtATime ==
    Cardinality(Active) <= 1


(***************************************************************************)
(* Claims about the caller's tables (checked under SpecTables).            *)
(***************************************************************************)
\* C11: clean_and_format_df does not mutate its input: in every step the
\* table passed in (raw, the once-cleaned table when it is cleaned again,
\* p_raw and i_raw of the merged sheet) has the same columns in the same
\* order with the same values after the call as before it.
C11_InputNotMutated ==
    [][/\ raw' = raw
       /\ p_raw' = p_raw
       /\ i_raw' = i_raw
       /\ (stage = "once" => once' = once)]_vars

\* C11 witness: a table with a recid column and a date-named column was
\* cleaned; the result lost the first and holds the second reformatted.
C11_Witness ==
    /\ stage = "once"
    /\ \E c \in Columns(raw) : HasRecidAnyCase(c.name)
    /\ \E c \in Columns(raw) :
          /\ HasDateAnyCase(c.name)
          /\ \E d \in Columns(once) : d.name = c.name /\ d.vals # c.vals


(***************************************************************************)
(* Claims about the parsed help page (checked under SpecScrape).           *)
(***************************************************************************)
\* the texts of a cell between its line-break, paragraph and list-item
\* boundaries, in document order
RECURSIVE Segments(_)
Segments(cell) ==
    IF Len(cell) = 0 THEN << <<>> >>
    ELSE LET rest == Segments(Tail(cell))
         IN  IF cell[1].tag \in {"br", "p", "li"}
             THEN << <<>> >> \o rest
             ELSE << cell[1].txt \o rest[1] >> \o Tail(rest)

\* the segments trimmed, the empty ones dropped, joined by one newline
LinesAtBoundaries(cell) ==
    LET segs == Segments(cell)
        NonBlank(l) == Strip(l) # <<>>
        kept == SelectSeq(segs, NonBlank)
    IN  JoinLines([i \in 1..Len(kept) |-> Strip(kept[i])])

\* the whole text of a cell, trimmed
TrimmedText(cell) == Strip(GetText(cell))

\* the page was fetched and every row was processed
ScrapeCompleted ==
    sstage = "returned" /\ url = "some" /\ fetchOk /\ raiseAt = 0

TwoCellRows == {i \in 1..Len(page) : Len(page[i]) >= 2}

\* C12: after a complete parse the map's keys are the trimmed texts of the
\* first cells of the rows with at least two cells, one entry per distinct
\* name, and each key maps to the second cell of such a row split into lines
\* at its line-break, paragraph and list-item boundaries, every line trimmed,
\* empty lines dropped, joined by single newlines in source order; rows with
\* fewer than two cells add nothing.
C12_DescriptionLines ==
    ScrapeCompleted =>
        /\ DOMAIN defs = {TrimmedText(page[i][1]) : i \in TwoCellRows}
        /\ \A k \in DOMAIN defs :
              \E i \in TwoCellRows :
                  /\ TrimmedText(page[i][1]) = k
                  /\ defs[k] = LinesAtBoundaries(page[i][2])


(***************************************************************************)
(* Claims about the written workbooks (checked under Spec).                *)
(***************************************************************************)
\* the column rules of a cleaned table that the claim singles out
CleanedColumn(c) ==
    /\ ~HasRecidAnyCase(c.name)
    /\ \E r \in 1..Len(c.vals) : ~IsEmptyOrZero(c.vals[r])

\* C13: every table handed to the file writer, for every variant and sheet,
\* "1-Loans" and the merged sheet included, satisfies the cleaned-table
\* column rules: no written column has every value in the empty/zero set
\* and no written column name contains "recid".
C13_WrittenTablesCleaned ==
    \A k \in 1..NSheets(variant) :
        files[k].state \in {"written", "saved"} =>
            \A c \in Columns(files[k].table) : CleanedColumn(c)


(***************************************************************************)
(* Claims about the form of the threaded variant (checked under            *)
(* SpecThread).                                                            *)
(***************************************************************************)
\* C14: whatever the presses of the run button, the progress indicator is
\* running at every moment at which an export started by a press is still
\* in progress.
C14_ProgressWhileRunning ==
    Active # {} => progress


(***************************************************************************)
(* Claims about the outcome of an export (checked under Spec).             *)
(***************************************************************************)
Shown(w, kind) == Cardinality(MsgsOf(w, kind))

=============================================================================
